---- MODULE Spec2Model ----
(***************************************************************************)
(* Model of WinWord_Ref/add_word_source.py: a tool that parses an APA-like *)
(* book citation and appends it as a Source entry to a Word bibliography   *)
(* document unless an entry with the same Tag is already present.          *)
(*                                                                         *)
(* Text is modelled as a sequence of one-character strings, so that the    *)
(* string and regular-expression operations of the parser are computed     *)
(* character by character, as the code computes them.                      *)
(***************************************************************************)
EXTENDS Integers, Sequences, FiniteSets, TLC

(***************************************************************************)
(* Character classes used by the regular expressions of the source.        *)
(***************************************************************************)
\* \s : the whitespace characters that occur in the inputs
WS == {" ", "\t"}

\* \d
Digit == {"0", "1", "2", "3", "4", "5", "6", "7", "8", "9"}

\* [A-Z]
Upper == {"A", "B", "C", "D", "E", "F", "G", "H", "I", "J", "K", "L", "M",
          "N", "O", "P", "Q", "R", "S", "T", "U", "V", "W", "X", "Y", "Z"}

Min(S) == CHOOSE x \in S : \A y \in S : x <= y

Max(S) == CHOOSE x \in S : \A y \in S : x >= y

(***************************************************************************)
(* Python str methods, on sequences of characters.                         *)
(***************************************************************************)
RECURSIVE lstrip(_, _)
lstrip(s, cs) ==
  IF s # <<>> /\ Head(s) \in cs THEN lstrip(Tail(s), cs) ELSE s

RECURSIVE rstrip(_, _)
rstrip(s, cs) ==
  IF s # <<>> /\ s[Len(s)] \in cs
  THEN rstrip(SubSeq(s, 1, Len(s) - 1), cs)
  ELSE s

strip(s) == rstrip(lstrip(s, WS), WS)

\* s[i:] starts with pat (i is 1-based)
startswith(s, i, pat) ==
  /\ i + Len(pat) - 1 <= Len(s)
  /\ SubSeq(s, i, i + Len(pat) - 1) = pat

\* 1-based index of the first occurrence of pat in s, 0 when there is none
find(s, pat) ==
  LET I == {i \in 1..Len(s) : startswith(s, i, pat)}
  IN  IF I = {} THEN 0 ELSE Min(I)

RECURSIVE split(_, _)
split(s, sep) ==
  LET i == find(s, sep)
  IN  IF i = 0
      THEN <<s>>
      ELSE <<SubSeq(s, 1, i - 1)>> \o split(SubSeq(s, i + Len(sep), Len(s)), sep)

RECURSIVE replace(_, _, _)
replace(s, old, new) ==
  LET i == find(s, old)
  IN  IF i = 0
      THEN s
      ELSE SubSeq(s, 1, i - 1) \o new
           \o replace(SubSeq(s, i + Len(old), Len(s)), old, new)

\* [f(x) for x in xs if keep(x)] helpers
RECURSIVE StripAll(_)
StripAll(xs) ==
  IF xs = <<>> THEN <<>> ELSE <<strip(Head(xs))>> \o StripAll(Tail(xs))

RECURSIVE NonEmptyStripped(_)
NonEmptyStripped(xs) ==
  IF xs = <<>> THEN <<>>
  ELSE (IF strip(Head(xs)) # <<>> THEN <<strip(Head(xs))>> ELSE <<>>)
       \o NonEmptyStripped(Tail(xs))

(***************************************************************************)
(* The regular expressions of parse_book_apa_like.                         *)
(***************************************************************************)
\* re.sub(r"\s+", " ", s.strip())
RECURSIVE CollapseFrom(_, _)
CollapseFrom(s, i) ==
  IF i > Len(s) THEN <<>>
  ELSE IF s[i] \in WS
       THEN (IF i > 1 /\ s[i - 1] \in WS THEN <<>> ELSE <<" ">>)
            \o CollapseFrom(s, i + 1)
       ELSE <<s[i]>> \o CollapseFrom(s, i + 1)

normalize_ws(s) == CollapseFrom(strip(s), 1)

\* re.search(r"\((\d{4})\)", s): start of the first match, 0 when none
YearMatchAt(s, i) ==
  /\ i + 5 <= Len(s)
  /\ s[i] = "("
  /\ \A k \in 1..4 : s[i + k] \in Digit
  /\ s[i + 5] = ")"

search_year(s) ==
  LET I == {i \in 1..Len(s) : YearMatchAt(s, i)}
  IN  IF I = {} THEN 0 ELSE Min(I)

\* index of the first non-whitespace character at or after i (Len(s)+1 if none)
RECURSIVE SkipWS(_, _)
SkipWS(s, i) ==
  IF i <= Len(s) /\ s[i] \in WS THEN SkipWS(s, i + 1) ELSE i

\* r"\.\s+(?=[A-Z][^,]+,)" matches at i
AuthorSepAt(s, i) ==
  /\ s[i] = "."
  /\ i + 1 <= Len(s)
  /\ s[i + 1] \in WS
  /\ LET j == SkipWS(s, i + 1)
     IN  /\ j + 1 <= Len(s)
         /\ s[j] \in Upper
         /\ s[j + 1] # ","
         /\ \E k \in (j + 2)..Len(s) : s[k] = ","

\* re.split(r"\.\s+(?=[A-Z][^,]+,)", chunk)
RECURSIVE re_split_authors(_)
re_split_authors(chunk) ==
  LET I == {i \in 1..Len(chunk) : AuthorSepAt(chunk, i)}
  IN  IF I = {}
      THEN <<chunk>>
      ELSE LET i == Min(I)
               j == SkipWS(chunk, i + 1)
           IN  <<SubSeq(chunk, 1, i - 1)>>
               \o re_split_authors(SubSeq(chunk, j, Len(chunk)))

\* re.match(r"^(?P<last>[^,]+),\s*(?P<first>.+)$", p): the position of the
\* comma that ends the group "last", 0 when the pattern does not match
match_author(p) ==
  LET k == find(p, <<",">>)
  IN  IF k >= 2 /\ k < Len(p) THEN k ELSE 0

\* re.sub(r"\s*\([^)]*ed\.\)\s*$", "", t, flags=re.I)
EditionAt(t, i) ==
  LET a == SkipWS(t, i)
  IN  /\ a <= Len(t)
      /\ t[a] = "("
      /\ \E e \in (a + 1)..(Len(t) - 3) :
           /\ \A k \in (a + 1)..(e - 1) : t[k] # ")"
           /\ t[e] \in {"e", "E"}
           /\ t[e + 1] \in {"d", "D"}
           /\ t[e + 2] = "."
           /\ t[e + 3] = ")"
           /\ \A k \in (e + 4)..Len(t) : t[k] \in WS

strip_edition(t) ==
  LET I == {i \in 1..Len(t) : EditionAt(t, i)}
  IN  IF I = {} THEN t ELSE SubSeq(t, 1, Min(I) - 1)

(***************************************************************************)
(* parse_book_apa_like                                                     *)
(***************************************************************************)
\* parts = [p + "." if not p.endswith(".") else p for p in parts]
RECURSIVE AddPeriods(_)
AddPeriods(ps) ==
  IF ps = <<>> THEN <<>>
  ELSE LET p == Head(ps)
       IN  <<IF p[Len(p)] = "." THEN p ELSE p \o <<".">> >>
           \o AddPeriods(Tail(ps))

\* the fragments of one "&"-separated chunk (lines 58-61)
author_parts(chunk) ==
  LET parts == re_split_authors(chunk)
  IN  IF Len(parts) = 1
      THEN AddPeriods(NonEmptyStripped(split(chunk, <<".", ",">>)))
      ELSE parts

RECURSIVE Flatten(_)
Flatten(xss) == IF xss = <<>> THEN <<>> ELSE Head(xss) \o Flatten(Tail(xss))

RECURSIVE Reverse(_)
Reverse(xs) == IF xs = <<>> THEN <<>> ELSE Reverse(Tail(xs)) \o <<Head(xs)>>

\* variant: the authors are collected in reverse
all_parts_reversed(chunks) ==
  Reverse(Flatten([n \in 1..Len(chunks) |-> author_parts(chunks[n])]))

\* all fragments, in the order in which the two nested loops visit them
all_parts(chunks) ==
  Flatten([n \in 1..Len(chunks) |-> author_parts(chunks[n])])

\* p = p.strip().rstrip(".")
clean_part(p) == rstrip(strip(p), {"."})

author_of(p) ==
  LET q == clean_part(p)
      k == match_author(q)
  IN  [last  |-> strip(SubSeq(q, 1, k - 1)),
       first |-> strip(SubSeq(q, k + 1, Len(q)))]

NoResult == [err |-> "NotParsed", authors |-> <<>>, year |-> <<>>,
             title |-> <<>>, publisher |-> <<>>]

Died(e) == [err |-> e, authors |-> <<>>, year |-> <<>>,
            title |-> <<>>, publisher |-> <<>>]

\* number of pieces below which the tail is rejected (line 72)
MinPieces == 2

\* variant: the empty pieces between periods are kept
tail_pieces_keep_empty(after_year) ==
  StripAll(split(strip(lstrip(after_year, {".", " "})), <<".">>))

\* lines 70-71
tail_pieces(after_year) ==
  NonEmptyStripped(split(strip(lstrip(after_year, {".", " "})), <<".">>))

parse_book_apa_like(ref) ==
  LET s == normalize_ws(ref)
      y == search_year(s)
  IN  IF y = 0 THEN Died("YearNotFound")
      ELSE
      LET year        == SubSeq(s, y + 1, y + 4)
          before_year == rstrip(strip(SubSeq(s, 1, y - 1)), {"."})
          after_year  == strip(SubSeq(s, y + 6, Len(s)))
          authors_part == replace(before_year, <<",", " ", "&">>, <<" ", "&">>)
          author_chunks == StripAll(split(authors_part, <<" ", "&", " ">>))
          parts  == all_parts(author_chunks)
          pieces == tail_pieces(after_year)
      IN  IF \E n \in 1..Len(parts) : match_author(clean_part(parts[n])) = 0
          THEN Died("AuthorFormatError")
          ELSE IF Len(pieces) < MinPieces
          THEN Died("TitleOrPublisherMissing")
          ELSE [err       |-> "none",
                authors   |-> [n \in 1..Len(parts) |-> author_of(parts[n])],
                year      |-> year,
                title     |-> strip(strip_edition(pieces[1])),
                publisher |-> pieces[2]]

(***************************************************************************)
(* State.  The first three variables hold one call of the parser; the      *)
(* others hold the files and the position of one run of main() after       *)
(* another, each run reading what the previous run wrote.                  *)
(***************************************************************************)
VARIABLES
  form,       \* the parts the citation string was written from
  text,       \* the citation string handed to parse_book_apa_like
  parsed,     \* what parse_book_apa_like returned, or how it died
  doc0,       \* the Source entries of the very first input file
  file,       \* the Source entries of the input file of the current run
  pc,         \* position of the current run inside main()
  code_name,  \* args.code_name
  reference,  \* args.reference
  root,       \* the Source children of the parsed tree's root
  exists,     \* the value source_tag_exists returned
  src,        \* the element build_book_source returned
  out,        \* the output file of the current run
  outcome,    \* how the run ended
  log,        \* the calls the current run has made, in order
  prev,       \* tag and success of the previous run
  runs        \* number of runs started

pvars == <<form, text, parsed>>

rvars == <<doc0, file, pc, code_name, reference, root, exists, src, out,
           outcome, log, prev, runs>>

vars == <<form, text, parsed, doc0, file, pc, code_name, reference, root,
          exists, src, out, outcome, log, prev, runs>>

(***************************************************************************)
(* Citation strings for the parser: written from an author segment, a      *)
(* year and a tail of period-terminated segments.                          *)
(***************************************************************************)
Lasts == { <<"S", "i", "m", "o", "n">>, <<"D", "o", "e">>,
           <<"d", "e", " ", "S", "a">> }

Firsts == { <<"H", ".", " ", "A", ".">>, <<"R", ".">>, <<"H", "e", "r", "b">> }

Persons == [last : Lasts, first : Firsts]

\* "Last, First"
PersonText(p) == p.last \o <<",", " ">> \o p.first

\* the two ways of joining two authors
Joiners == { <<" ", "&", " ">>, <<",", " ", "&", " ">> }

\* author segments in which every author is written "Last, First"
GoodAuthorSegs ==
  { [persons |-> <<>>, ok |-> TRUE, join |-> <<>>, atext |-> <<>>] }
  \cup { [persons |-> <<p>>, ok |-> TRUE, join |-> <<>>,
          atext |-> PersonText(p)] : p \in Persons }
  \cup { [persons |-> <<pq[1], pq[2]>>, ok |-> TRUE, join |-> j,
          atext |-> PersonText(pq[1]) \o j \o PersonText(pq[2])] :
         pq \in Persons \X Persons, j \in Joiners }

\* author segments with a fragment that is not "Last, First"
BadAuthorSegs ==
  { [persons |-> <<>>, ok |-> FALSE, join |-> <<>>, atext |-> t] :
    t \in { <<"S", "i", "m", "o", "n">>,
            <<"S", "i", "m", "o", "n", ",">>,
            <<"D", "o", "e", ",", " ", "R", ".", " ", "&", " ", "S", "a">> } }

AuthorSegs == GoodAuthorSegs \cup BadAuthorSegs

\* a year: has says whether it is written as "(YYYY)"
YearSegs ==
  { [has |-> TRUE,  digits |-> <<"1", "9", "9", "6">>,
     ytext |-> <<"(", "1", "9", "9", "6", ")">>],
    [has |-> FALSE, digits |-> <<>>,
     ytext |-> <<"1", "9", "9", "6">>],
    [has |-> FALSE, digits |-> <<>>,
     ytext |-> <<"(", "9", "6", ")">>] }

\* the segments after the year
Tails ==
  { <<>>,
    << <<"T">> >>,
    << <<"T">>, <<"P">> >>,
    << <<"T", "h", "e", " ", "S", "c", "i", "e", "n", "c", "e", "s", " ",
         "o", "f", " ", "t", "h", "e", " ", "A", "r", "t", "i", "f", "i",
         "c", "i", "a", "l">>,
       <<"M", "I", "T", " ", "P", "r", "e", "s", "s">> >>,
    << <<"T">>, <<"P">>, <<"p", "p", " ", "1">> >> }

\* ". Seg1. Seg2."
RECURSIVE TailText(_)
TailText(segs) ==
  IF segs = <<>> THEN <<".">>
  ELSE IF Len(segs) = 1 THEN <<".", " ">> \o Head(segs) \o <<".">>
  ELSE <<".", " ">> \o Head(segs) \o TailText(Tail(segs))

Forms == [authors : AuthorSegs, year : YearSegs, tail : Tails]

\* "Authors (YYYY). Title. Publisher."
Render(f) ==
  f.authors.atext \o <<" ">> \o f.year.ytext \o TailText(f.tail)

(***************************************************************************)
(* The parser on its own: Init draws a citation, ParseCitation applies     *)
(* parse_book_apa_like to it.                                              *)
(***************************************************************************)
ParseCitation ==
  /\ parsed.err = "NotParsed"
  /\ parsed' = parse_book_apa_like(text)
  /\ UNCHANGED <<form, text>>
  /\ UNCHANGED rvars

(***************************************************************************)
(* The bibliography document: the sequence of the root's Source children.  *)
(* An entry holds the text of its fields; ref is the RefOrder child (has   *)
(* says whether the element is there) and tail the whitespace that follows *)
(* the Source element in the file.                                         *)
(***************************************************************************)
NoRef == [has |-> FALSE, rtext |-> <<>>]

RefOf(t) == [has |-> TRUE, rtext |-> t]

\* str.isdigit()
isdigit(t) == t # <<>> /\ \A k \in 1..Len(t) : t[k] \in Digit

DigitSeq == <<"0", "1", "2", "3", "4", "5", "6", "7", "8", "9">>

DigitVal(c) == (CHOOSE n \in 1..10 : DigitSeq[n] = c) - 1

\* int(ro)
RECURSIVE int(_)
int(t) ==
  IF t = <<>> THEN 0
  ELSE 10 * int(SubSeq(t, 1, Len(t) - 1)) + DigitVal(t[Len(t)])

\* str(nro)
RECURSIVE str(_)
str(n) ==
  IF n < 10 THEN <<DigitSeq[n + 1]>>
  ELSE str(n \div 10) \o <<DigitSeq[(n % 10) + 1]>>

\* the value next_reforder returns for "no numeric RefOrder"
None == -1

\* src.findtext("b:RefOrder", "", NS)
findtext_RefOrder(e) == IF e.ref.has THEN e.ref.rtext ELSE <<>>

\* variant: the loop returns after looking at the first Source only
source_tag_exists_first(r, tag) == Len(r) > 0 /\ r[1].tag = tag

\* variant: the tag is never found
source_tag_exists_never(r, tag) == FALSE

source_tag_exists(r, tag) == \E i \in 1..Len(r) : r[i].tag = tag

\* variant: the maximum itself, without the + 1
next_reforder_same(r) ==
  LET vals == { int(findtext_RefOrder(r[i])) :
                i \in {k \in 1..Len(r) : isdigit(findtext_RefOrder(r[k]))} }
  IN  IF vals # {} THEN Max(vals) ELSE None

\* variant: min(vals) + 1
next_reforder_min(r) ==
  LET vals == { int(findtext_RefOrder(r[i])) :
                i \in {k \in 1..Len(r) : isdigit(findtext_RefOrder(r[k]))} }
  IN  IF vals # {} THEN Min(vals) + 1 ELSE None

next_reforder(r) ==
  LET vals == { int(findtext_RefOrder(r[i])) :
                i \in {k \in 1..Len(r) : isdigit(findtext_RefOrder(r[k]))} }
  IN  IF vals # {} THEN Max(vals) + 1 ELSE None

build_book_source(tag, cit, guid) ==
  [tag |-> tag, type |-> "Book", authors |-> cit.authors,
   title |-> cit.title, year |-> cit.year, publisher |-> cit.publisher,
   guid |-> guid, ref |-> NoRef, tail |-> <<>>]

\* not t or not t.strip()
Blank(t) == \A k \in 1..Len(t) : t[k] \in WS \cup {"\n"}

\* indent(root): what it does to the tails of the root's children
indent(r) ==
  [i \in 1..Len(r) |->
     IF Blank(r[i].tail)
     THEN [r[i] EXCEPT !.tail = IF i = Len(r) THEN <<"\n">>
                                 ELSE <<"\n", "\t">>]
     ELSE r[i]]

(***************************************************************************)
(* Inputs of the runs.                                                     *)
(***************************************************************************)
\* longest first input document
MaxInitLen == 2

\* number of runs in a row
MaxRuns == 2

Tags == {"Simon1996", "Doe2000"}

InitTags == {"Simon1996", "Old"}

RefTexts == { NoRef, RefOf(<<"0", "3">>), RefOf(<<"9">>), RefOf(<<"x">>) }

InitTails == { <<>>, <<"\n">> }

Guids == {"G1", "G2"}

InitEntries ==
  { [tag |-> t, type |-> "Book",
     authors |-> << [last |-> <<"O">>, first |-> <<"L">>] >>,
     title |-> <<"o">>, year |-> <<"1", "9", "0", "0">>,
     publisher |-> <<"p">>, guid |-> "G0", ref |-> r, tail |-> w] :
    t \in InitTags, r \in RefTexts, w \in InitTails }

InitDocs == UNION { [1..n -> InitEntries] : n \in 0..MaxInitLen }

\* the citations of the runs: one that parses, one that does not
GoodRef == <<"S", "i", ",", " ", "H", ".", " ", "(", "1", "9", "9", "6", ")",
             ".", " ", "T", ".", " ", "P", ".">>

BadRef == <<"S", "i", " ", "(", "1", "9", "9", "6", ")", ".", " ", "T", ".",
            " ", "P", ".">>

\* the command lines of the runs: code_name and reference, each of which
\* may be missing
CommandLines ==
  (Tags \X {GoodRef, BadRef}) \cup {<<"", GoodRef>>, <<"Simon1996", <<>> >>}

NoOut == [written |-> FALSE, doc |-> <<>>]

NoSrc == build_book_source("", NoResult, "")

\* no previous run, or one that wrote nothing
NoPrev == [tag |-> "", wrote |-> FALSE]

(***************************************************************************)
(* main(), one action per step.                                            *)
(***************************************************************************)
\* lines 135-151: the arguments are read and the input file, which is taken
\* to exist, is parsed
Invoke(tag, ref) ==
  /\ pc = "idle"
  /\ runs < MaxRuns
  /\ runs' = runs + 1
  /\ code_name' = tag
  /\ reference' = ref
  /\ IF tag = "" \/ ref = <<>>
     THEN /\ outcome' = "MissingArgument"
          /\ pc' = "exit"
          /\ root' = <<>>
          /\ log' = <<>>
     ELSE /\ outcome' = "running"
          /\ pc' = "loaded"
          /\ root' = file
          /\ log' = <<"load">>
  /\ exists' = FALSE
  /\ src' = NoSrc
  /\ out' = NoOut
  /\ UNCHANGED <<doc0, file, prev>>
  /\ UNCHANGED pvars

\* variant: the citation is parsed before the tag is looked up
TagCheck_parse_first ==
  /\ pc = "loaded"
  /\ IF parse_book_apa_like(reference).err # "none"
     THEN /\ outcome' = parse_book_apa_like(reference).err
          /\ pc' = "exit"
          /\ log' = Append(log, "parse")
          /\ exists' = exists
     ELSE /\ exists' = source_tag_exists(root, code_name)
          /\ log' = log \o <<"parse", "check">>
          /\ pc' = "checked"
          /\ outcome' = outcome
  /\ UNCHANGED <<doc0, file, code_name, reference, root, src, out, prev,
                 runs>>
  /\ UNCHANGED pvars

\* line 153
TagCheck ==
  /\ pc = "loaded"
  /\ exists' = source_tag_exists(root, code_name)
  /\ log' = Append(log, "check")
  /\ pc' = "checked"
  /\ UNCHANGED <<doc0, file, code_name, reference, root, src, out, outcome,
                 prev, runs>>
  /\ UNCHANGED pvars

\* variant: the tree is indented before it is written back
WriteUnchanged_indented ==
  /\ pc = "checked"
  /\ exists
  /\ out' = [written |-> TRUE, doc |-> indent(root)]
  /\ log' = Append(log, "write")
  /\ outcome' = "exists"
  /\ pc' = "exit"
  /\ UNCHANGED <<doc0, file, code_name, reference, root, exists, src, prev,
                 runs>>
  /\ UNCHANGED pvars

\* lines 154-156
WriteUnchanged ==
  /\ pc = "checked"
  /\ exists
  /\ out' = [written |-> TRUE, doc |-> root]
  /\ log' = Append(log, "write")
  /\ outcome' = "exists"
  /\ pc' = "exit"
  /\ UNCHANGED <<doc0, file, code_name, reference, root, exists, src, prev,
                 runs>>
  /\ UNCHANGED pvars

\* line 158
Build ==
  /\ pc = "checked"
  /\ ~exists
  /\ log' = Append(log, "parse")
  /\ LET cit == parse_book_apa_like(reference)
     IN  IF cit.err # "none"
         THEN /\ outcome' = cit.err
              /\ pc' = "exit"
              /\ src' = src
         ELSE /\ \E g \in Guids : src' = build_book_source(code_name, cit, g)
              /\ pc' = "built"
              /\ outcome' = outcome
  /\ UNCHANGED <<doc0, file, code_name, reference, root, exists, out, prev,
                 runs>>
  /\ UNCHANGED pvars

\* variant: the new Source is inserted as the first child
AppendSource_front ==
  /\ pc = "built"
  /\ LET nro == next_reforder(root)
         new == IF nro # None THEN [src EXCEPT !.ref = RefOf(str(nro))]
                ELSE src
     IN  /\ src' = new
         /\ root' = indent(<<new>> \o root)
  /\ log' = Append(log, "append")
  /\ pc' = "appended"
  /\ UNCHANGED <<doc0, file, code_name, reference, exists, out, outcome, prev,
                 runs>>
  /\ UNCHANGED pvars

\* lines 160-165
AppendSource ==
  /\ pc = "built"
  /\ LET nro == next_reforder(root)
         new == IF nro # None THEN [src EXCEPT !.ref = RefOf(str(nro))]
                ELSE src
     IN  /\ src' = new
         /\ root' = indent(Append(root, new))
  /\ log' = Append(log, "append")
  /\ pc' = "appended"
  /\ UNCHANGED <<doc0, file, code_name, reference, exists, out, outcome, prev,
                 runs>>
  /\ UNCHANGED pvars

\* lines 166-167
WriteAdded ==
  /\ pc = "appended"
  /\ out' = [written |-> TRUE, doc |-> root]
  /\ log' = Append(log, "write")
  /\ outcome' = "added"
  /\ pc' = "exit"
  /\ UNCHANGED <<doc0, file, code_name, reference, root, exists, src, prev,
                 runs>>
  /\ UNCHANGED pvars

\* the process has exited; the next run reads the file this run wrote (the
\* same input again when this run died before writing)
NextRun ==
  /\ pc = "exit"
  /\ runs < MaxRuns
  /\ file' = IF out.written THEN out.doc ELSE file
  /\ prev' = IF out.written THEN [tag |-> code_name, wrote |-> TRUE]
             ELSE NoPrev
  /\ pc' = "idle"
  /\ code_name' = ""
  /\ reference' = <<>>
  /\ root' = <<>>
  /\ exists' = FALSE
  /\ src' = NoSrc
  /\ out' = NoOut
  /\ outcome' = "none"
  /\ log' = <<>>
  /\ UNCHANGED <<doc0, runs>>
  /\ UNCHANGED pvars

(***************************************************************************)
(* Specifications.                                                         *)
(***************************************************************************)
RunIdle ==
  /\ pc = "idle"
  /\ code_name = ""
  /\ reference = <<>>
  /\ root = <<>>
  /\ exists = FALSE
  /\ src = NoSrc
  /\ out = NoOut
  /\ outcome = "none"
  /\ log = <<>>
  /\ prev = NoPrev
  /\ runs = 0

Init ==
  /\ form = [authors |-> CHOOSE a \in GoodAuthorSegs : a.persons = <<>>,
             year |-> CHOOSE y \in YearSegs : y.has,
             tail |-> <<>>]
  /\ text = <<>>
  /\ parsed = NoResult
  /\ doc0 \in InitDocs
  /\ file = doc0
  /\ RunIdle

Next ==
  \/ \E a \in CommandLines : Invoke(a[1], a[2])
  \/ TagCheck
  \/ WriteUnchanged
  \/ Build
  \/ AppendSource
  \/ WriteAdded
  \/ NextRun

Spec == Init /\ [][Next]_vars

ParseInit ==
  /\ form \in Forms
  /\ text = Render(form)
  /\ parsed = NoResult
  /\ doc0 = <<>>
  /\ file = <<>>
  /\ RunIdle

ParseNext == ParseCitation

ParseSpec == ParseInit /\ [][ParseNext]_vars

(***************************************************************************)
(* Vocabulary of the properties.                                           *)
(***************************************************************************)
TagIn(d, tag) == \E i \in 1..Len(d) : d[i].tag = tag

TagsDistinct(d) ==
  \A i, j \in 1..Len(d) : i # j => d[i].tag # d[j].tag

\* the positions of d whose RefOrder is a decimal number
NumericAt(d) == {i \in 1..Len(d) : d[i].ref.has /\ isdigit(d[i].ref.rtext)}

NumericRefs(d) == { int(d[i].ref.rtext) : i \in NumericAt(d) }

NumericDistinct(d) ==
  \A i, j \in NumericAt(d) : i # j => int(d[i].ref.rtext) # int(d[j].ref.rtext)

\* the fields of an entry, without the whitespace around it
Fields(e) == <<e.tag, e.type, e.authors, e.title, e.year, e.publisher,
               e.guid, e.ref>>

\* the run got past its arguments and read the input file
Loaded == Len(log) > 0

Finished == pc = "exit" /\ Loaded

Added == Finished /\ outcome = "added"

\* the documents a run has read or written
DocsSeen == {file} \cup (IF out.written THEN {out.doc} ELSE {})

HasParsed == parsed.err # "NotParsed"

\* First with its trailing periods removed
NoTrailingPeriod(t) == rstrip(t, {"."})

(***************************************************************************)
(* C1: starting from a document with pairwise distinct tags, every document *)
(* that any sequence of runs reads or writes has pairwise distinct tags.    *)
(***************************************************************************)
C1_NoDuplicateTag ==
  TagsDistinct(doc0) => \A d \in DocsSeen \cup {root} : TagsDistinct(d)

\* a run that found its tag was followed by a run that inserted another tag
C1_Witness ==
  /\ Added
  /\ prev.wrote
  /\ prev.tag # code_name
  /\ TagIn(doc0, prev.tag)
  /\ TagsDistinct(doc0)
  /\ Len(doc0) = 2
  /\ Len(out.doc) = 3

(***************************************************************************)
(* C2: an inserted entry gets RefOrder max + 1 over the numeric RefOrders   *)
(* of the entries already there, and no RefOrder when there is none;        *)
(* missing and non-numeric RefOrders do not count.                          *)
(***************************************************************************)
C2_NextRefOrder ==
  (pc = "appended" \/ Added) =>
    LET new  == root[Len(root)]
        nums == NumericRefs(file)
    IN  IF nums = {}
        THEN ~new.ref.has
        ELSE /\ new.ref.has
             /\ isdigit(new.ref.rtext)
             /\ int(new.ref.rtext) - 1 \in nums
             /\ \A n \in nums : n < int(new.ref.rtext)

\* existing RefOrders 3 and 4 beside one that is not numeric: 5
C2_Witness ==
  /\ Added
  /\ NumericRefs(file) = {3, 4}
  /\ \E i \in 1..Len(file) : file[i].ref = RefOf(<<"x">>)
  /\ out.doc[Len(out.doc)].ref = RefOf(<<"5">>)

(***************************************************************************)
(* C3: when the tag is already in the document, the run writes the document *)
(* as it read it: same entries, same order, same fields, nothing added.     *)
(***************************************************************************)
C3_DuplicateShortCircuit ==
  (Finished /\ TagIn(file, code_name)) =>
    /\ out.written
    /\ out.doc = file

C3_Witness ==
  /\ Finished
  /\ outcome = "exists"
  /\ Len(file) = 2
  /\ file[2].tag = code_name
  /\ file[1].ref.has
  /\ file[1].tail = <<>>
  /\ out.doc = file

(***************************************************************************)
(* C4: a second run with the same tag on the output of the first run writes *)
(* its input back: same number of entries, same entries, same order.        *)
(***************************************************************************)
C4_Idempotent ==
  (Finished /\ prev.wrote /\ prev.tag = code_name) =>
    /\ outcome = "exists"
    /\ out.written
    /\ Len(out.doc) = Len(file)
    /\ out.doc = file

\* the first run inserted the tag, the second run found it
C4_Witness ==
  /\ Finished
  /\ prev.wrote
  /\ prev.tag = code_name
  /\ ~TagIn(doc0, code_name)
  /\ Len(file) = Len(doc0) + 1
  /\ out.doc = file

(***************************************************************************)
(* C5: when the tag is absent and the citation parses, the run adds exactly *)
(* one entry, as the last one, and the entries that were there keep their   *)
(* positions and their fields.                                              *)
(***************************************************************************)
C5_AppendOnly ==
  (Finished /\ ~TagIn(file, code_name) /\ reference = GoodRef) =>
    /\ outcome = "added"
    /\ out.written
    /\ Len(out.doc) = Len(file) + 1
    /\ out.doc[Len(out.doc)].tag = code_name
    /\ \A i \in 1..Len(file) : Fields(out.doc[i]) = Fields(file[i])

\* two entries kept their fields while the whitespace after them changed
C5_Witness ==
  /\ Added
  /\ Len(file) = 2
  /\ file[1].tag # file[2].tag
  /\ out.doc[1].tail # file[1].tail
  /\ Fields(out.doc[1]) = Fields(file[1])
  /\ out.doc[3].tag = code_name

(***************************************************************************)
(* C6: a single-author citation "Last, First (YYYY). Title. Publisher."     *)
(* parses to the one author (Last, First), First exactly as written, and    *)
(* the given year, title and publisher.                                     *)
(***************************************************************************)
SingleAuthorForm ==
  /\ form.authors.ok
  /\ Len(form.authors.persons) = 1
  /\ form.year.has
  /\ Len(form.tail) = 2

C6_SingleAuthorAsWritten ==
  (HasParsed /\ SingleAuthorForm) =>
    parsed = [err       |-> "none",
              authors   |-> form.authors.persons,
              year      |-> form.year.digits,
              title     |-> form.tail[1],
              publisher |-> form.tail[2]]

(***************************************************************************)
(* C7: a citation with two authors joined by " & " or ", & " parses to      *)
(* exactly two authors, in the order in which they are written.             *)
(***************************************************************************)
TwoAuthorForm ==
  /\ form.authors.ok
  /\ Len(form.authors.persons) = 2
  /\ form.year.has
  /\ Len(form.tail) >= 2

ShortTailForm == form.year.has /\ Len(form.tail) < 2

C8_ShortTailAlwaysTitleError ==
  (HasParsed /\ ShortTailForm) => parsed.err = "TitleOrPublisherMissing"

(***************************************************************************)
(* C8, amended: such a citation fails with TitleOrPublisherMissing when     *)
(* every fragment of its author segment is "Last, First" (or there is no    *)
(* author), and with AuthorFormatError otherwise.                           *)
(***************************************************************************)
C8_ShortTailFails ==
  (HasParsed /\ ShortTailForm) =>
    parsed.err = IF form.authors.ok THEN "TitleOrPublisherMissing"
                 ELSE "AuthorFormatError"

C8_Witness ==
  /\ HasParsed
  /\ ShortTailForm
  /\ Len(form.tail) = 1
  /\ Len(form.authors.persons) = 2
  /\ parsed.err = "TitleOrPublisherMissing"

(***************************************************************************)
(* C9: in a run the citation is parsed before the tag is looked up, so a    *)
(* citation that does not parse ends the run with a parse error and no      *)
(* output, whether or not the tag is in the document.                       *)
(***************************************************************************)
Before(a, b) ==
  \A i \in 1..Len(log) : log[i] = b => \E j \in 1..(i - 1) : log[j] = a

ParseErrors == {"YearNotFound", "AuthorFormatError", "TitleOrPublisherMissing"}

C9_ParseBeforeCheck ==
  /\ Before("parse", "check")
  /\ (Finished /\ reference = BadRef) =>
       (outcome \in ParseErrors /\ ~out.written)

(***************************************************************************)
(* C9, amended: the tag is looked up before the citation is parsed; a       *)
(* citation that does not parse ends the run with a parse error and no      *)
(* output when the tag is absent, and is never parsed when the tag is in    *)
(* the document: that run writes the document back unchanged.               *)
(***************************************************************************)
C9_CheckBeforeParse ==
  /\ Before("check", "parse")
  /\ (Finished /\ reference = BadRef) =>
       IF TagIn(file, code_name)
       THEN /\ outcome = "exists"
            /\ out.written
            /\ out.doc = file
            /\ \A i \in 1..Len(log) : log[i] # "parse"
       ELSE /\ outcome \in ParseErrors
            /\ ~out.written

C9_Witness ==
  /\ Finished
  /\ reference = BadRef
  /\ TagIn(file, code_name)
  /\ outcome = "exists"
  /\ log = <<"load", "check", "write">>

(***************************************************************************)
(* C10: the RefOrder of an inserted entry is greater than every numeric     *)
(* RefOrder already there; numeric RefOrders that start pairwise distinct   *)
(* stay so, and the inserted entries carry increasing RefOrders in          *)
(* document order.                                                          *)
(***************************************************************************)
InsertedIncreasing(d) ==
  \A i, j \in (Len(doc0) + 1)..Len(d) :
    (i < j /\ d[i].ref.has /\ d[j].ref.has) =>
      /\ isdigit(d[i].ref.rtext)
      /\ isdigit(d[j].ref.rtext)
      /\ int(d[i].ref.rtext) < int(d[j].ref.rtext)

C10_RefOrderIncreases ==
  /\ (pc = "appended" \/ Added) =>
       \A n \in NumericRefs(file) :
         /\ root[Len(root)].ref.has
         /\ n < int(root[Len(root)].ref.rtext)
  /\ NumericDistinct(doc0) => \A d \in DocsSeen : NumericDistinct(d)
  /\ \A d \in DocsSeen : InsertedIncreasing(d)

\* two insertions after 9 and 03: RefOrders 10 and 11
C10_Witness ==
  /\ Added
  /\ Len(doc0) = 2
  /\ NumericRefs(doc0) = {3, 9}
  /\ Len(out.doc) = 4
  /\ out.doc[3].ref = RefOf(<<"1", "0">>)
  /\ out.doc[4].ref = RefOf(<<"1", "1">>)

====
